---- MODULE Spec2Model ----
(***************************************************************************)
(* VM snoozing workflow (src/src/main.py) and the repository inspector     *)
(* (src/src/tools/repo_inspector.py).                                      *)
(*                                                                         *)
(* Spec       one run of VMSnoozingWorkflow.execute, one action per        *)
(*            awaited step, every collaborator call either returning or    *)
(*            raising.                                                     *)
(* SpecScore  RepoInspector._calculate_confidence on one evidence dict.    *)
(* SpecInspect RepoInspector.inspect_repository on the two evidence dicts  *)
(*            the scanners produce.                                        *)
(* SpecScan   RepoInspector.inspect_repository on a file tree: the walk,   *)
(*            the two scanners, the classification and the suggestions.    *)
(* SpecTreeRun direct inspections of a file tree next to runs of execute   *)
(*            whose step 1 inspects the working directory.                 *)
(* SpecMain   main(): the configuration read from the environment, then    *)
(*            one run of execute.                                          *)
(* SpecPrompt PromptsService.load_code_generator_prompt.                   *)
(* SpecGenerate runs of execute next to direct calls of                    *)
(*            IaCGenerator.generate_automation_account.                    *)
(* SpecRuns   two runs of execute on one VMSnoozingWorkflow object,        *)
(*            interleaved at their awaits.                                 *)
(*                                                                         *)
(* Confidence scores are kept in integer hundredths: 0.2 is 20, 1.0 is 100.*)
(* The code adds binary floating-point numbers, which can separate two     *)
(* sums that are equal in hundredths (0.1 + 0.2 against 0.3); such an      *)
(* input is a tie here and a narrow win in the code.  The properties       *)
(* stated below compare the scores themselves and read the same in both.   *)
(***************************************************************************)
EXTENDS Integers, Sequences, FiniteSets, TLC

VARIABLES
    pc,                 \* position of the run inside execute
    subscription_id,    \* argument of execute
    vm_selector,        \* argument of execute, then the defaulted selector
    workflow_id,        \* local of execute
    infra_type,         \* local of execute: repo_context.get('infra_type')
    branch_name,        \* local of execute
    generated_files,    \* local of execute
    commit_sha,         \* local of execute
    validation_results, \* local of execute
    pr,                 \* local of execute
    exc,                \* the exception in flight inside the try block
    notifications,      \* payloads handed to send_notification, in call order
    returned,           \* values execute returned to its caller
    raised,             \* exceptions execute raised to its caller
    calls,              \* collaborator calls made by the run, in order
    patterns,           \* input of _calculate_confidence
    score,              \* output of _calculate_confidence
    terraform_patterns, \* output of _detect_terraform
    bicep_patterns,     \* output of _detect_bicep
    inspection,         \* result of inspect_repository
    env,                \* os.environ as main() finds it
    config,             \* the WorkflowConfig main() loads
    prompt_args,        \* arguments of load_code_generator_prompt
    prompts_dir,        \* template files present in PROMPTS_DIR
    prompt_out,         \* what load_code_generator_prompt did
    tree,               \* the file tree inspect_repository is called on
    scan_raised,        \* exceptions inspect_repository raised
    self,               \* the fields of the VMSnoozingWorkflow object two runs share
    frames              \* the locals of the run that is suspended at an await

wfvars == <<pc, subscription_id, vm_selector, workflow_id, infra_type,
            branch_name, generated_files, commit_sha, validation_results,
            pr, exc, notifications, returned, raised, calls>>
scvars == <<patterns, score>>
insvars == <<terraform_patterns, bicep_patterns, inspection>>
mainvars == <<env, config>>
promptvars == <<prompt_args, prompts_dir, prompt_out>>
scanvars == <<tree, scan_raised>>
runvars == <<self, frames>>
extras == <<mainvars, promptvars, scanvars, runvars>>
others == <<scvars, insvars, extras>>
vars == <<wfvars, scvars, insvars, extras>>

----------------------------------------------------------------------------
(* Values *)

None == "None"
NoExc == [site |-> "none", text |-> "none"]
NoPr == [number |-> 0, head |-> <<>>]
NoValidation == [passed |-> TRUE, checks |-> <<>>, errors |-> <<>>]

\* Subscription identifiers a caller passes to execute.
SubscriptionIds == {"sub-a", "sub-b"}
\* vm_selector is Optional[Dict]: absent, empty, a tag selector, or explicit ids.
DefaultSelector == "tag_selector:snooze=true,environment=nonprod"
VmSelectors == {None, "{}", DefaultSelector, "vm_ids"}
\* Message texts an exception of a collaborator may carry.
ErrorTexts == {"timeout", "denied"}
\* A validation check passes, fails, or raises.
CheckOutcomes == {"passed", "failed", "raise"}
CheckNames == {"terraform_fmt", "terraform_validate", "bicep_build", "secret_scan"}

----------------------------------------------------------------------------
(* Bounds *)

\* Largest number of items per bucket of a dict handed to the scorer.
MaxItems == 4
\* Largest number of items per bucket of a tree handed to the inspector.
MaxEvidence == 2
\* Largest number of items per bucket of the tree inspected by a run of execute.
MaxScan == 1
\* Largest number of items per bucket of the tree inspected by one of two
\* runs sharing a workflow object.
MaxSharedScan == 0
\* Largest number of files and directories in a tree handed to the scanners.
MaxEntries == 4
\* Largest number of files and directories in the working directory of a run
\* of execute whose step 1 scans that directory.
MaxRunEntries == 1

----------------------------------------------------------------------------
(* RepoInspector: evidence buckets *)

Min(a, b) == IF a < b THEN a ELSE b

\* Keys of the dict _detect_terraform returns, in insertion order.
TerraformKeys == <<"tf_files", "tfvars_files", "terraform_dirs", "provider_configs", "state_files">>
\* Keys of the dict _detect_bicep returns, in insertion order.
BicepKeys == <<"bicep_files", "bicepparam_files", "bicep_dirs", "main_bicep">>

Range(s) == {s[i] : i \in DOMAIN s}

\* Relative paths are sequences of components; the n items of a bucket are
\* n distinct top-level entries.
ItemNames == <<"e1", "e2", "e3", "e4", "e5", "e6", "e7", "e8">>
Items(n) == [i \in 1..n |-> <<ItemNames[i]>>]

\* Every dict over the given keys with at most n items per bucket.
Evidence(keys, n) == [Range(keys) -> {Items(c) : c \in 0..n}]

\* What _detect_terraform can return: a file enters provider_configs only
\* together with tf_files (lines 98-101).
TerraformEvidence(n) ==
    {p \in Evidence(TerraformKeys, n) : Len(p["provider_configs"]) <= Len(p["tf_files"])}

\* What _detect_bicep can return: a file enters main_bicep only together with
\* bicep_files (lines 130-133).
BicepEvidence(n) ==
    {p \in Evidence(BicepKeys, n) : Len(p["main_bicep"]) <= Len(p["bicep_files"])}

\* patterns[key].append(rel_path)
AddItem(p, key) == [p EXCEPT ![key] = Append(@, <<ItemNames[Len(@) + 1]>>)]

----------------------------------------------------------------------------
(* RepoInspector._calculate_confidence, in hundredths *)

\* Mutant: the saturation caps are missing, every item counts.
UncappedContribution(key, items) ==
    IF key \in {"tf_files", "bicep_files"} THEN Len(items) * 20
    ELSE IF key \in {"provider_configs", "main_bicep"} THEN Len(items) * 30
    ELSE IF key \in {"terraform_dirs", "bicep_dirs"} THEN Len(items) * 10
    ELSE Len(items) * 5

\* One pass of the loop body (lines 149-163): the capped contribution of a bucket.
Contribution(key, items) ==
    IF items = <<>> THEN 0
    ELSE IF key \in {"tf_files", "bicep_files"} THEN Min(Len(items) * 20, 60)
    ELSE IF key \in {"provider_configs", "main_bicep"} THEN Min(Len(items) * 30, 30)
    ELSE IF key \in {"terraform_dirs", "bicep_dirs"} THEN Min(Len(items) * 10, 20)
    ELSE Min(Len(items) * 5, 10)

\* patterns.items() yields the buckets in insertion order.
Keys(p) == IF DOMAIN p = Range(TerraformKeys) THEN TerraformKeys ELSE BicepKeys

\* The loop of lines 148-163: score += contribution, bucket after bucket.
RECURSIVE Accumulate(_, _, _)
Accumulate(p, keys, acc) ==
    IF keys = <<>> THEN acc
    ELSE Accumulate(p, Tail(keys), acc + Contribution(Head(keys), p[Head(keys)]))

\* Mutant: the clamp of line 165 is missing.
UnclampedConfidence(p) == Accumulate(p, Keys(p), 0)

\* Mutant: "score =" in place of "score +=": a later non-empty bucket
\* overwrites what the earlier ones contributed.
RECURSIVE Overwrite(_, _, _)
Overwrite(p, keys, acc) ==
    IF keys = <<>> THEN acc
    ELSE Overwrite(p, Tail(keys),
                   IF p[Head(keys)] = <<>> THEN acc ELSE Contribution(Head(keys), p[Head(keys)]))

OverwritingConfidence(p) == Min(Overwrite(p, Keys(p), 0), 100)

_calculate_confidence(p) == Min(Accumulate(p, Keys(p), 0), 100)

----------------------------------------------------------------------------
(* RepoInspector._suggest_file_paths and inspect_repository *)

\* The fixed confidence of the default branch (line 66), in hundredths.
DefaultConfidence == 50

\* os.path.dirname and os.path.join on component sequences.
dirname(path) == SubSeq(path, 1, Len(path) - 1)
join(base, name) == Append(base, name)

\* patterns.get(key): a bucket the dict lacks reads as empty (falsy).
Get(p, key) == IF key \in DOMAIN p THEN p[key] ELSE <<>>

\* Mutant: the directory of the first dialect file is never used.
BaseDirWithoutFiles(p, dirs_key, files_key, conventional, infra_exists) ==
    IF Get(p, dirs_key) # <<>> THEN Get(p, dirs_key)[1]
    ELSE IF infra_exists THEN <<"infra", conventional>>
    ELSE <<conventional>>

\* Lines 175-184 and 190-199: the base directory for one dialect.
BaseDir(p, dirs_key, files_key, conventional, infra_exists) ==
    IF Get(p, dirs_key) # <<>> THEN Get(p, dirs_key)[1]
    ELSE IF Get(p, files_key) # <<>> THEN dirname(Get(p, files_key)[1])
    ELSE IF infra_exists THEN <<"infra", conventional>>
    ELSE <<conventional>>

Suggestions(base_dir) ==
    [iac_dir |-> base_dir,
     automation_dir |-> join(base_dir, "automation"),
     runbooks_dir |-> join(join(base_dir, "automation"), "runbooks")]

_suggest_file_paths(infra_exists, type, p) ==
    IF type = "terraform"
    THEN Suggestions(BaseDir(p, "terraform_dirs", "tf_files", "terraform", infra_exists))
    ELSE IF type = "bicep"
    THEN Suggestions(BaseDir(p, "bicep_dirs", "bicep_files", "bicep", infra_exists))
    ELSE [iac_dir |-> <<>>, automation_dir |-> <<>>, runbooks_dir |-> <<>>]

\* Mutant: a tie between positive scores goes to the first branch.
ClassifyTieToTerraform(terraform_score, bicep_score) ==
    IF terraform_score >= bicep_score /\ terraform_score > 0
    THEN [infra_type |-> "terraform", confidence |-> terraform_score]
    ELSE IF bicep_score > terraform_score /\ bicep_score > 0
    THEN [infra_type |-> "bicep", confidence |-> bicep_score]
    ELSE [infra_type |-> "bicep", confidence |-> DefaultConfidence]

\* Mutant: without a winner no dialect is reported.
ClassifyWithoutDefault(terraform_score, bicep_score) ==
    IF terraform_score > bicep_score /\ terraform_score > 0
    THEN [infra_type |-> "terraform", confidence |-> terraform_score]
    ELSE IF bicep_score > terraform_score /\ bicep_score > 0
    THEN [infra_type |-> "bicep", confidence |-> bicep_score]
    ELSE [infra_type |-> None, confidence |-> 0]

\* Mutant: the bicep branch copies the confidence of the terraform branch.
ClassifyCopiedConfidence(terraform_score, bicep_score) ==
    IF terraform_score > bicep_score /\ terraform_score > 0
    THEN [infra_type |-> "terraform", confidence |-> terraform_score]
    ELSE IF bicep_score > terraform_score /\ bicep_score > 0
    THEN [infra_type |-> "bicep", confidence |-> terraform_score]
    ELSE [infra_type |-> "bicep", confidence |-> DefaultConfidence]

\* Lines 54-67: the choice of dialect from the two scores.
Classify(terraform_score, bicep_score) ==
    IF terraform_score > bicep_score /\ terraform_score > 0
    THEN [infra_type |-> "terraform", confidence |-> terraform_score]
    ELSE IF bicep_score > terraform_score /\ bicep_score > 0
    THEN [infra_type |-> "bicep", confidence |-> bicep_score]
    ELSE [infra_type |-> "bicep", confidence |-> DefaultConfidence]

\* inspect_repository on the scanners' results tp and bp; infra_exists is
\* what os.path.exists(<repo_path>/infra) answers.
inspect_repository(tp, bp, infra_exists) ==
    LET terraform_score == _calculate_confidence(tp)
        bicep_score == _calculate_confidence(bp)
        choice == Classify(terraform_score, bicep_score)
        found == IF choice.infra_type = "terraform" THEN tp ELSE bp
    IN  [infra_type |-> choice.infra_type,
         confidence |-> choice.confidence,
         patterns_found |-> found,
         suggested_paths |-> _suggest_file_paths(infra_exists, choice.infra_type, found)]

----------------------------------------------------------------------------
(* IaCGenerator.generate_automation_account *)

TerraformFiles == <<"main.tf", "variables.tf", "outputs.tf", "Stop-TargetedVMs.ps1", "Start-TargetedVMs.ps1">>
BicepFiles == <<"main.bicep", "main.bicepparam", "Stop-TargetedVMs.ps1", "Start-TargetedVMs.ps1">>

\* Mutant: a dialect the dispatch does not know is treated as bicep.
DispatchDefaultingToBicep(type) ==
    IF type = "terraform" THEN [generator |-> "_generate_terraform", files |-> TerraformFiles, error |-> FALSE]
    ELSE [generator |-> "_generate_bicep", files |-> BicepFiles, error |-> FALSE]

\* The dispatch on infra_type (lines 47-56): which generator runs, or the
\* ValueError of the else branch.
generate_automation_account(type) ==
    IF type = "terraform" THEN [generator |-> "_generate_terraform", files |-> TerraformFiles, error |-> FALSE]
    ELSE IF type = "bicep" THEN [generator |-> "_generate_bicep", files |-> BicepFiles, error |-> FALSE]
    ELSE [generator |-> None, files |-> <<>>, error |-> TRUE]

----------------------------------------------------------------------------
(* VMSnoozingWorkflow._run_validation_checks *)

\* The checks the dialect selects, in call order (lines 213-241).
ChecksFor(type) ==
    IF type = "terraform" THEN <<"terraform_fmt", "terraform_validate", "secret_scan">>
    ELSE IF type = "bicep" THEN <<"bicep_build", "secret_scan">>
    ELSE <<"secret_scan">>

\* Mutant: the first failed check ends the sequence.
RECURSIVE RunChecksStoppingAtFailure(_, _, _)
RunChecksStoppingAtFailure(todo, outcome, results) ==
    IF todo = <<>> THEN results
    ELSE LET name == Head(todo)
         IN  IF outcome[name] = "raise"
             THEN [results EXCEPT !.passed = FALSE,
                                  !.errors = Append(@, [check |-> name, kind |-> "raised"])]
             ELSE LET ran == [results EXCEPT !.checks = Append(@, [name |-> name, passed |-> outcome[name] = "passed"])]
                  IN  IF outcome[name] = "passed"
                      THEN RunChecksStoppingAtFailure(Tail(todo), outcome, ran)
                      ELSE [ran EXCEPT !.passed = FALSE,
                                       !.errors = Append(@, [check |-> name, kind |-> "failed"])]

\* One check after the other inside the try block: a check that raises ends
\* the sequence in the except clause (lines 243-246).
RECURSIVE RunChecks(_, _, _)
RunChecks(todo, outcome, results) ==
    IF todo = <<>> THEN results
    ELSE LET name == Head(todo)
         IN  IF outcome[name] = "raise"
             THEN [results EXCEPT !.passed = FALSE,
                                  !.errors = Append(@, [check |-> name, kind |-> "raised"])]
             ELSE LET ran == [results EXCEPT !.checks = Append(@, [name |-> name, passed |-> outcome[name] = "passed"])]
                      rec == IF outcome[name] = "passed" THEN ran
                             ELSE [ran EXCEPT !.passed = FALSE,
                                              !.errors = Append(@, [check |-> name, kind |-> "failed"])]
                  IN  RunChecks(Tail(todo), outcome, rec)

_run_validation_checks(type, outcome) == RunChecks(ChecksFor(type), outcome, NoValidation)

----------------------------------------------------------------------------
(* VMSnoozingWorkflow.execute *)

Exception(site, text) == [site |-> site, text |-> text]

\* The payload dicts of lines 123-129, 157-167 and 181-186; a key the code
\* does not set carries its empty value.
Payload(status, branch, number, error, errors) ==
    [workflow_id |-> workflow_id, status |-> status, subscription_id |-> subscription_id,
     branch |-> branch, pr_number |-> number, error |-> error, errors |-> errors]

\* The dicts execute returns (lines 130-135 and 170-177).
Result(success, error, branch, files) ==
    [success |-> success, workflow_id |-> workflow_id, error |-> error, pr |-> pr,
     branch |-> branch, files |-> files, validation |-> validation_results]

\* A call of execute: lines 62-63.
Execute ==
    /\ pc = "idle"
    /\ \E sub \in SubscriptionIds, sel \in VmSelectors :
          /\ subscription_id' = sub
          /\ vm_selector' = sel
          /\ workflow_id' = <<"snooze", sub>>
    /\ pc' = "step1"
    /\ UNCHANGED <<infra_type, branch_name, generated_files, commit_sha,
                   validation_results, pr, exc, notifications, returned, raised, calls>>
    /\ UNCHANGED others

\* Step 1, lines 66-73: inspect_repository returns a context or raises;
\* an infra_type outside the two dialects raises ValueError.
Step1InspectUpTo(n) ==
    /\ pc = "step1"
    /\ calls' = Append(calls, "inspect_repository")
    /\ \/ \E text \in ErrorTexts :
             /\ exc' = Exception("inspect_repository", text)
             /\ pc' = "except"
             /\ UNCHANGED infra_type
       \/ \E tp \in TerraformEvidence(n), bp \in BicepEvidence(n), infra_exists \in BOOLEAN :
             LET repo_context == inspect_repository(tp, bp, infra_exists)
             IN  /\ infra_type' = repo_context.infra_type
                 /\ IF repo_context.infra_type \notin {"terraform", "bicep"}
                    THEN /\ exc' = Exception("execute", "Unable to detect valid infrastructure type")
                         /\ pc' = "except"
                    ELSE /\ pc' = "step2"
                         /\ UNCHANGED exc
    /\ UNCHANGED <<subscription_id, vm_selector, workflow_id, branch_name, generated_files,
                   commit_sha, validation_results, pr, notifications, returned, raised>>
    /\ UNCHANGED others

Step1Inspect == Step1InspectUpTo(MaxScan)

\* Step 2, lines 76-82.
Step2CreateBranch ==
    /\ pc = "step2"
    /\ branch_name' = <<"agent/snooze-automation", subscription_id>>
    /\ calls' = Append(calls, "create_branch")
    /\ \/ \E text \in ErrorTexts :
             /\ exc' = Exception("create_branch", text)
             /\ pc' = "except"
       \/ /\ pc' = "step3"
          /\ UNCHANGED exc
    /\ UNCHANGED <<subscription_id, vm_selector, workflow_id, infra_type, generated_files,
                   commit_sha, validation_results, pr, notifications, returned, raised>>
    /\ UNCHANGED others

\* Step 3, lines 85-102: the selector is defaulted, then the generator for
\* the dialect runs and returns its files or raises.
Step3Generate ==
    /\ pc = "step3"
    /\ vm_selector' = IF vm_selector \in {None, "{}"} THEN DefaultSelector ELSE vm_selector
    /\ LET gen == generate_automation_account(infra_type)
       IN  IF gen.error
           THEN /\ calls' = Append(calls, "generate_automation_account")
                /\ exc' = Exception("generate_automation_account", "Unsupported infrastructure type")
                /\ pc' = "except"
                /\ UNCHANGED generated_files
           ELSE /\ calls' = calls \o <<"generate_automation_account", gen.generator>>
                /\ \/ \E text \in ErrorTexts :
                         /\ exc' = Exception(gen.generator, text)
                         /\ pc' = "except"
                         /\ UNCHANGED generated_files
                   \/ /\ generated_files' = gen.files
                      /\ pc' = "step4"
                      /\ UNCHANGED exc
    /\ UNCHANGED <<subscription_id, workflow_id, infra_type, branch_name, commit_sha,
                   validation_results, pr, notifications, returned, raised>>
    /\ UNCHANGED others

\* Step 4, lines 105-111.
Step4Commit ==
    /\ pc = "step4"
    /\ calls' = Append(calls, "commit_files")
    /\ \/ \E text \in ErrorTexts :
             /\ exc' = Exception("commit_files", text)
             /\ pc' = "except"
             /\ UNCHANGED commit_sha
       \/ /\ commit_sha' = "mock_commit_sha_123456"
          /\ pc' = "step5"
          /\ UNCHANGED exc
    /\ UNCHANGED <<subscription_id, vm_selector, workflow_id, infra_type, branch_name,
                   generated_files, validation_results, pr, notifications, returned, raised>>
    /\ UNCHANGED others

\* Step 5, lines 114-121: the checks run; the result decides the branch.
Step5Validate ==
    /\ pc = "step5"
    /\ calls' = Append(calls, "_run_validation_checks")
    /\ \E outcome \in [CheckNames -> CheckOutcomes] :
          /\ validation_results' = _run_validation_checks(infra_type, outcome)
          /\ pc' = IF validation_results'.passed THEN "step6" ELSE "validation_failed"
    /\ UNCHANGED <<subscription_id, vm_selector, workflow_id, infra_type, branch_name,
                   generated_files, commit_sha, pr, exc, notifications, returned, raised>>
    /\ UNCHANGED others

\* Lines 122-135: the failed_validation notification, then the failure result.
\* send_notification raises, or returns its bool (delivered), which execute
\* does not read.
ValidationFailed ==
    /\ pc = "validation_failed"
    /\ calls' = Append(calls, "send_notification")
    /\ notifications' = Append(notifications,
          Payload("failed_validation", branch_name, 0, "", validation_results.errors))
    /\ \/ \E text \in ErrorTexts :
             /\ exc' = Exception("send_notification:failed_validation", text)
             /\ pc' = "except"
             /\ UNCHANGED returned
       \/ \E delivered \in BOOLEAN :
             /\ returned' = Append(returned, Result(FALSE, "Validation checks failed", <<>>, <<>>))
             /\ pc' = "done"
             /\ UNCHANGED exc
    /\ UNCHANGED <<subscription_id, vm_selector, workflow_id, infra_type, branch_name,
                   generated_files, commit_sha, validation_results, pr, raised>>
    /\ UNCHANGED others

\* Mutant: the pull request is opened right after the commit, before the
\* validation has run.
PullRequestBeforeValidation ==
    /\ pc \in {"step5", "step6"}
    /\ calls' = Append(calls, "create_pull_request")
    /\ pr' = [number |-> 1, head |-> branch_name]
    /\ pc' = "step7"
    /\ UNCHANGED <<subscription_id, vm_selector, workflow_id, infra_type, branch_name,
                   generated_files, commit_sha, validation_results, exc, notifications,
                   returned, raised>>
    /\ UNCHANGED others

\* Step 6, lines 138-153.
Step6CreatePullRequest ==
    /\ pc = "step6"
    /\ calls' = Append(calls, "create_pull_request")
    /\ \/ \E text \in ErrorTexts :
             /\ exc' = Exception("create_pull_request", text)
             /\ pc' = "except"
             /\ UNCHANGED pr
       \/ /\ pr' = [number |-> 1, head |-> branch_name]
          /\ pc' = "step7"
          /\ UNCHANGED exc
    /\ UNCHANGED <<subscription_id, vm_selector, workflow_id, infra_type, branch_name,
                   generated_files, commit_sha, validation_results, notifications, returned, raised>>
    /\ UNCHANGED others

\* Step 7, lines 156-177: the pr_created notification, then the success result.
Step7Notify ==
    /\ pc = "step7"
    /\ calls' = Append(calls, "send_notification")
    /\ notifications' = Append(notifications,
          Payload("pr_created", branch_name, pr.number, "", <<>>))
    /\ \/ \E text \in ErrorTexts :
             /\ exc' = Exception("send_notification:pr_created", text)
             /\ pc' = "except"
             /\ UNCHANGED returned
       \/ \E delivered \in BOOLEAN :
             /\ returned' = Append(returned, Result(TRUE, "", branch_name, generated_files))
             /\ pc' = "done"
             /\ UNCHANGED exc
    /\ UNCHANGED <<subscription_id, vm_selector, workflow_id, infra_type, branch_name,
                   generated_files, commit_sha, validation_results, pr, raised>>
    /\ UNCHANGED others

\* Lines 179-187: the failed notification carrying str(e), then the bare
\* raise; an exception of the notification call leaves the handler instead.
ExceptHandler ==
    /\ pc = "except"
    /\ calls' = Append(calls, "send_notification")
    /\ notifications' = Append(notifications, Payload("failed", <<>>, 0, exc.text, <<>>))
    /\ \/ \E text \in ErrorTexts :
             raised' = Append(raised, Exception("send_notification:failed", text))
       \/ \E delivered \in BOOLEAN :
             raised' = Append(raised, exc)
    /\ pc' = "done"
    /\ UNCHANGED <<subscription_id, vm_selector, workflow_id, infra_type, branch_name,
                   generated_files, commit_sha, validation_results, pr, exc, returned>>
    /\ UNCHANGED others

Idle ==
    /\ pc = "idle"
    /\ subscription_id = None
    /\ vm_selector = None
    /\ workflow_id = <<>>
    /\ infra_type = None
    /\ branch_name = <<>>
    /\ generated_files = <<>>
    /\ commit_sha = None
    /\ validation_results = NoValidation
    /\ pr = NoPr
    /\ exc = NoExc
    /\ notifications = <<>>
    /\ returned = <<>>
    /\ raised = <<>>
    /\ calls = <<>>

\* main() has not been entered.
NoMain ==
    /\ env = <<>>
    /\ config = <<>>

\* load_code_generator_prompt has not been called.
NoPrompt ==
    /\ prompt_args = <<>>
    /\ prompts_dir = {}
    /\ prompt_out = <<>>

\* No tree has been handed to the inspector.
NoScan ==
    /\ tree = <<>>
    /\ scan_raised = <<>>

\* No second run shares the object.
NoRuns ==
    /\ self = <<>>
    /\ frames = <<>>

NoExtras == NoMain /\ NoPrompt /\ NoScan /\ NoRuns

Init ==
    /\ Idle
    /\ NoExtras
    /\ patterns = <<>>
    /\ score = <<>>
    /\ terraform_patterns = <<>>
    /\ bicep_patterns = <<>>
    /\ inspection = <<>>

Next ==
    \/ Execute
    \/ Step1Inspect
    \/ Step2CreateBranch
    \/ Step3Generate
    \/ Step4Commit
    \/ Step5Validate
    \/ ValidationFailed
    \/ Step6CreatePullRequest
    \/ Step7Notify
    \/ ExceptHandler

Spec == Init /\ [][Next]_vars

----------------------------------------------------------------------------
(* Runs of execute next to direct calls of the generator *)

\* Values a caller of generate_automation_account may pass as infra_type.
DialectValues == {"terraform", "bicep", None, "none", "Terraform", "arm"}

\* A call of IaCGenerator.generate_automation_account outside execute
\* (iac_generator.py lines 18-56): the selected generator returns its files
\* or raises, an unknown dialect raises ValueError.
CallGenerator ==
    /\ pc = "idle"
    /\ \E type \in DialectValues :
          LET gen == generate_automation_account(type)
          IN  /\ infra_type' = type
              /\ IF gen.error
                 THEN /\ calls' = <<"generate_automation_account">>
                      /\ raised' = <<Exception("generate_automation_account",
                                               "Unsupported infrastructure type")>>
                      /\ UNCHANGED generated_files
                 ELSE /\ calls' = <<"generate_automation_account", gen.generator>>
                      /\ \/ \E text \in ErrorTexts :
                               /\ raised' = <<Exception(gen.generator, text)>>
                               /\ UNCHANGED generated_files
                         \/ /\ generated_files' = gen.files
                            /\ UNCHANGED raised
    /\ pc' = "generated"
    /\ UNCHANGED <<subscription_id, vm_selector, workflow_id, branch_name, commit_sha,
                   validation_results, pr, exc, notifications, returned>>
    /\ UNCHANGED others

NextGenerate ==
    \/ Execute
    \/ Step1Inspect
    \/ Step2CreateBranch
    \/ Step3Generate
    \/ Step4Commit
    \/ Step5Validate
    \/ ValidationFailed
    \/ Step6CreatePullRequest
    \/ Step7Notify
    \/ ExceptHandler
    \/ CallGenerator

SpecGenerate == Init /\ [][NextGenerate]_vars

----------------------------------------------------------------------------
(* Two runs of execute on one VMSnoozingWorkflow object *)

\* The object after __init__ (lines 44-49).
WorkflowObject ==
    [config |-> [base_branch |-> "main", timezone |-> "Europe/Copenhagen",
                 start_time |-> "07:30", stop_time |-> "18:30"],
     credential |-> "DefaultAzureCredential",
     repo_inspector |-> "RepoInspector",
     iac_generator |-> "IaCGenerator",
     github_client |-> "GitHubClient",
     notification_client |-> "NotificationClient"]

\* The locals of the running coroutine, as one frame.
Locals ==
    [pc |-> pc, subscription_id |-> subscription_id, vm_selector |-> vm_selector,
     workflow_id |-> workflow_id, infra_type |-> infra_type, branch_name |-> branch_name,
     generated_files |-> generated_files, commit_sha |-> commit_sha,
     validation_results |-> validation_results, pr |-> pr, exc |-> exc,
     notifications |-> notifications, returned |-> returned, raised |-> raised,
     calls |-> calls]
\* The frame of a run that has not been started.
FreshFrame ==
    [pc |-> "idle", subscription_id |-> None, vm_selector |-> None,
     workflow_id |-> <<>>, infra_type |-> None, branch_name |-> <<>>,
     generated_files |-> <<>>, commit_sha |-> None,
     validation_results |-> NoValidation, pr |-> NoPr, exc |-> NoExc,
     notifications |-> <<>>, returned |-> <<>>, raised |-> <<>>, calls |-> <<>>]

\* execute(subscription_id) on the shared object, vm_selector left at its
\* default (lines 51-63).
ExecuteShared ==
    /\ pc = "idle"
    /\ \E sub \in SubscriptionIds :
          /\ subscription_id' = sub
          /\ workflow_id' = <<"snooze", sub>>
    /\ pc' = "step1"
    /\ UNCHANGED <<vm_selector, infra_type, branch_name, generated_files, commit_sha,
                   validation_results, pr, exc, notifications, returned, raised, calls>>
    /\ UNCHANGED others

\* Step 1 of a run on the shared object.
Step1InspectShared == Step1InspectUpTo(MaxSharedScan)

\* Mutant: workflow_id lives on the shared object, not in the frame.
SwitchSharingWorkflowId ==
    /\ frames' = Locals
    /\ pc' = frames.pc
    /\ subscription_id' = frames.subscription_id
    /\ vm_selector' = frames.vm_selector
    /\ infra_type' = frames.infra_type
    /\ branch_name' = frames.branch_name
    /\ generated_files' = frames.generated_files
    /\ commit_sha' = frames.commit_sha
    /\ validation_results' = frames.validation_results
    /\ pr' = frames.pr
    /\ exc' = frames.exc
    /\ notifications' = frames.notifications
    /\ returned' = frames.returned
    /\ raised' = frames.raised
    /\ calls' = frames.calls
    /\ UNCHANGED <<workflow_id, self, scvars, insvars, mainvars, promptvars, scanvars>>

\* The event loop suspends the running coroutine at its await (or after it
\* finished) and resumes the other one: each coroutine keeps its own locals.
Switch ==
    /\ frames' = Locals
    /\ pc' = frames.pc
    /\ subscription_id' = frames.subscription_id
    /\ vm_selector' = frames.vm_selector
    /\ workflow_id' = frames.workflow_id
    /\ infra_type' = frames.infra_type
    /\ branch_name' = frames.branch_name
    /\ generated_files' = frames.generated_files
    /\ commit_sha' = frames.commit_sha
    /\ validation_results' = frames.validation_results
    /\ pr' = frames.pr
    /\ exc' = frames.exc
    /\ notifications' = frames.notifications
    /\ returned' = frames.returned
    /\ raised' = frames.raised
    /\ calls' = frames.calls
    /\ UNCHANGED <<self, scvars, insvars, mainvars, promptvars, scanvars>>

InitRuns ==
    /\ Idle
    /\ patterns = <<>>
    /\ score = <<>>
    /\ terraform_patterns = <<>>
    /\ bicep_patterns = <<>>
    /\ inspection = <<>>
    /\ NoMain
    /\ NoPrompt
    /\ NoScan
    /\ self = WorkflowObject
    /\ frames = FreshFrame

NextRuns ==
    \/ ExecuteShared
    \/ Step1InspectShared
    \/ Step2CreateBranch
    \/ Step3Generate
    \/ Step4Commit
    \/ Step5Validate
    \/ ValidationFailed
    \/ Step6CreatePullRequest
    \/ Step7Notify
    \/ ExceptHandler
    \/ Switch

SpecRuns == InitRuns /\ [][NextRuns]_vars

----------------------------------------------------------------------------
(* The scorer on its own: one evidence dict in, one score out *)

\* patterns is any dict a scanner could hand over, with any item count in
\* every bucket.
InitScore ==
    /\ Idle
    /\ NoExtras
    /\ patterns \in Evidence(TerraformKeys, MaxItems) \cup Evidence(BicepKeys, MaxItems)
    /\ score = <<>>
    /\ terraform_patterns = <<>>
    /\ bicep_patterns = <<>>
    /\ inspection = <<>>

\* The call self._calculate_confidence(patterns) (lines 49-50).
CalculateConfidence ==
    /\ score = <<>>
    /\ score' = <<_calculate_confidence(patterns)>>
    /\ UNCHANGED <<patterns, wfvars, insvars, extras>>

NextScore == CalculateConfidence

SpecScore == InitScore /\ [][NextScore]_vars

----------------------------------------------------------------------------
(* The inspector on its own: both scanners' dicts in, the result out *)

InitInspect ==
    /\ Idle
    /\ NoExtras
    /\ patterns = <<>>
    /\ score = <<>>
    /\ terraform_patterns \in TerraformEvidence(MaxEvidence)
    /\ bicep_patterns \in BicepEvidence(MaxEvidence)
    /\ inspection = <<>>

\* The call inspect_repository() (lines 45-78) on the scanned tree.
InspectRepository ==
    /\ inspection = <<>>
    /\ \E infra_exists \in BOOLEAN :
          inspection' = <<inspect_repository(terraform_patterns, bicep_patterns, infra_exists)>>
    /\ UNCHANGED <<terraform_patterns, bicep_patterns, wfvars, scvars, extras>>

NextInspect == InspectRepository

SpecInspect == InitInspect /\ [][NextInspect]_vars

----------------------------------------------------------------------------
(* main(): the configuration is read from the environment, then one run *)

\* os.getenv finds a variable set to a value, or not set at all.
Unset == "<unset>"
\* The variables from_env reads that have no usable default.
RequiredEnv == {"GITHUB_REPO_OWNER", "GITHUB_REPO_NAME", "GITHUB_TOKEN",
                "AZURE_SUBSCRIPTION_ID"}
EnvNames == RequiredEnv \cup {"GITHUB_BASE_BRANCH"}
EnvValue(name) ==
    CASE name = "GITHUB_REPO_OWNER" -> "octo"
      [] name = "GITHUB_REPO_NAME" -> "infra-repo"
      [] name = "GITHUB_TOKEN" -> "ghp_token"
      [] name = "GITHUB_BASE_BRANCH" -> "develop"
      [] name = "AZURE_SUBSCRIPTION_ID" -> "sub-a"
Environments == {e \in [EnvNames -> {Unset} \cup {EnvValue(n) : n \in EnvNames}] :
                    \A n \in EnvNames : e[n] \in {Unset, EnvValue(n)}}

\* os.getenv(name, default).
getenv(e, name, default) == IF e[name] = Unset THEN default ELSE e[name]

\* GitHubConfig.from_env (config.py lines 18-26).
GitHubConfig_from_env(e) ==
    [repo_owner |-> getenv(e, "GITHUB_REPO_OWNER", ""),
     repo_name |-> getenv(e, "GITHUB_REPO_NAME", ""),
     base_branch |-> getenv(e, "GITHUB_BASE_BRANCH", "main"),
     token |-> getenv(e, "GITHUB_TOKEN", "")]

\* WorkflowConfig.from_env (config.py lines 55-66); the fields with a
\* default that no step of the run reads are left out.
WorkflowConfig_from_env(e) ==
    [github_config |-> GitHubConfig_from_env(e),
     target_subscription_id |-> getenv(e, "AZURE_SUBSCRIPTION_ID", "")]

\* main() up to the first await inside execute (main.py lines 323-339 and
\* 62-63): the configuration is loaded, the workflow object is built and
\* execute is entered with the configured subscription.
Main ==
    /\ pc = "idle"
    /\ config = <<>>
    /\ LET loaded == WorkflowConfig_from_env(env) IN
          /\ config' = <<loaded>>
          /\ subscription_id' = loaded.target_subscription_id
          /\ workflow_id' = <<"snooze", loaded.target_subscription_id>>
    /\ vm_selector' = DefaultSelector
    /\ pc' = "step1"
    /\ UNCHANGED <<infra_type, branch_name, generated_files, commit_sha,
                   validation_results, pr, exc, notifications, returned, raised, calls>>
    /\ UNCHANGED <<env, scvars, insvars, promptvars, scanvars, runvars>>

InitMain ==
    /\ Idle
    /\ patterns = <<>>
    /\ score = <<>>
    /\ terraform_patterns = <<>>
    /\ bicep_patterns = <<>>
    /\ inspection = <<>>
    /\ env \in Environments
    /\ config = <<>>
    /\ NoPrompt
    /\ NoScan
    /\ NoRuns

NextMain ==
    \/ Main
    \/ Step1Inspect
    \/ Step2CreateBranch
    \/ Step3Generate
    \/ Step4Commit
    \/ Step5Validate
    \/ ValidationFailed
    \/ Step6CreatePullRequest
    \/ Step7Notify
    \/ ExceptHandler

SpecMain == InitMain /\ [][NextMain]_vars

----------------------------------------------------------------------------
(* PromptsService.load_code_generator_prompt (src/src/prompts_service.py) *)

\* Values callers pass; the comparison in the code is exact, so a
\* capitalised spelling is one more unsupported value.
CloudProviders == {"azure", "aws", "gcp", "none", "Azure"}
IacTypes == {"terraform", "bicep", "none", "Terraform"}
RepositoryUrls == {"https://github.com/octo/infra-repo"}
TemplateFiles == {"azure_tf.prompty", "azure_bicep.prompty", "aws_tf.prompty"}

\* A variant that falls back to the Azure Terraform template.
LoadWithFallbackTemplate(cloud_provider, iac_type, repository_url, dir) ==
    LET file_name ==
            IF cloud_provider = "azure" /\ iac_type = "bicep" THEN "azure_bicep.prompty"
            ELSE IF cloud_provider = "aws" /\ iac_type = "terraform" THEN "aws_tf.prompty"
            ELSE "azure_tf.prompty"
    IN  IF file_name \notin dir
        THEN [opened |-> <<file_name>>, raised |-> "FileNotFoundError", prompt |-> <<>>]
        ELSE [opened |-> <<file_name>>, raised |-> None,
              prompt |-> <<file_name, repository_url>>]

\* Lines 21-40.  opened lists the files handed to open(), raised names the
\* exception that left the call, prompt is the template with the
\* repository URL filled in.  The template files are not part of the
\* sources; one that is present is taken to format without error.
load_code_generator_prompt(cloud_provider, iac_type, repository_url, dir) ==
    LET file_name ==
            IF cloud_provider = "azure" /\ iac_type = "terraform" THEN "azure_tf.prompty"
            ELSE IF cloud_provider = "azure" /\ iac_type = "bicep" THEN "azure_bicep.prompty"
            ELSE IF cloud_provider = "aws" /\ iac_type = "terraform" THEN "aws_tf.prompty"
            ELSE ""
    IN  IF file_name = ""
        THEN [opened |-> <<>>, raised |-> "ValueError", prompt |-> <<>>]
        ELSE IF file_name \notin dir
        THEN [opened |-> <<file_name>>, raised |-> "FileNotFoundError", prompt |-> <<>>]
        ELSE [opened |-> <<file_name>>, raised |-> None,
              prompt |-> <<file_name, repository_url>>]

InitPrompt ==
    /\ Idle
    /\ patterns = <<>>
    /\ score = <<>>
    /\ terraform_patterns = <<>>
    /\ bicep_patterns = <<>>
    /\ inspection = <<>>
    /\ NoMain
    /\ prompt_args \in [cloud_provider : CloudProviders, iac_type : IacTypes,
                         repository_url : RepositoryUrls]
    /\ prompts_dir \in SUBSET TemplateFiles
    /\ prompt_out = <<>>
    /\ NoScan
    /\ NoRuns

\* One call of load_code_generator_prompt.
LoadCodeGeneratorPrompt ==
    /\ prompt_out = <<>>
    /\ prompt_out' = <<load_code_generator_prompt(prompt_args.cloud_provider,
                          prompt_args.iac_type, prompt_args.repository_url, prompts_dir)>>
    /\ UNCHANGED <<prompt_args, prompts_dir, wfvars, scvars, insvars, mainvars, scanvars, runvars>>

NextPrompt == LoadCodeGeneratorPrompt

SpecPrompt == InitPrompt /\ [][NextPrompt]_vars

----------------------------------------------------------------------------
(* The file tree and the two scanners (repo_inspector.py lines 80-141) *)

\* Files and directories a repository may hold, with paths relative to its
\* root.  A "locked" directory is one whose listing is denied.
Universe == <<
    [path |-> <<"main.tf">>, kind |-> "file"],
    [path |-> <<"provider.tf">>, kind |-> "file"],
    [path |-> <<"prod.tfvars">>, kind |-> "file"],
    [path |-> <<"terraform.tfstate">>, kind |-> "file"],
    [path |-> <<"main.bicep">>, kind |-> "file"],
    [path |-> <<"main.bicepparam">>, kind |-> "file"],
    [path |-> <<"infra">>, kind |-> "file"],
    [path |-> <<"infra">>, kind |-> "dir"],
    [path |-> <<"infra", "app.bicep">>, kind |-> "file"],
    [path |-> <<"terraform">>, kind |-> "dir"],
    [path |-> <<"terraform">>, kind |-> "locked"],
    [path |-> <<"terraform", "vm.tf">>, kind |-> "file"],
    [path |-> <<"modules">>, kind |-> "dir"],
    [path |-> <<"modules", "net.tf">>, kind |-> "file"],
    [path |-> <<".git">>, kind |-> "dir"],
    [path |-> <<".git", "hook.tf">>, kind |-> "file"],
    [path |-> <<"node_modules">>, kind |-> "dir"],
    [path |-> <<"node_modules", "pkg.bicep">>, kind |-> "file"],
    [path |-> <<"node_modules", "terraform">>, kind |-> "dir"] >>
\* Names the root directory itself may carry.
RootNames == {"repo", "terraform-infra"}

basename(path) == path[Len(path)]

\* The string tests of the scanners, on the names above.
startswith_dot(name) == name \in {".git"}
endswith_tf(name) == name \in {"main.tf", "provider.tf", "vm.tf", "net.tf", "hook.tf"}
contains_provider(name) == name \in {"provider.tf"}
endswith_tfvars(name) == name \in {"prod.tfvars"}
endswith_tfstate(name) == name \in {"terraform.tfstate"}
endswith_bicep(name) == name \in {"main.bicep", "app.bicep", "pkg.bicep"}
endswith_bicepparam(name) == name \in {"main.bicepparam"}
contains_terraform(name) == name \in {"terraform", "terraform-infra"}
contains_bicep_keyword(name) == name \in {"infra", "terraform-infra"}

\* Every set of at most n elements of S.
RECURSIVE SubsetsUpTo(_, _)
SubsetsUpTo(S, n) ==
    IF n = 0 THEN {{}}
    ELSE LET smaller == SubsetsUpTo(S, n - 1)
         IN  smaller \cup {T \cup {x} : T \in smaller, x \in S}

\* No path twice, and every entry below the root lies in a directory.
WellFormed(entries) ==
    /\ \A i, j \in entries : i # j => Universe[i].path # Universe[j].path
    /\ \A i \in entries : Len(Universe[i].path) > 1 =>
          \E j \in entries : /\ Universe[j].path = dirname(Universe[i].path)
                             /\ Universe[j].kind \in {"dir", "locked"}

\* A root that can be listed, with any content.  repo_path is the argument
\* of inspect_repository (None stands for the working directory), order is
\* the order in which the file system lists a directory.
ReadableTrees ==
    {t \in [repo_path : {None, "path"}, access : {"readable"}, root_name : RootNames,
            order : {"asc", "desc"},
            entries : SubsetsUpTo(DOMAIN Universe, MaxEntries)] : WellFormed(t.entries)}
\* A root that is missing, or denies listing with or without denying the
\* lookup of its entries.  Nothing but the lookup of "infra" can tell the
\* content of such a root, so only that entry varies.
FaultyTrees ==
    {t \in [repo_path : {None, "path"}, access : {"missing", "no_access", "search_only"},
            root_name : RootNames, order : {"asc"}, entries : {{}, {7}, {8}, {8, 9}}] :
        t.access = "missing" => t.entries = {}}
Trees == ReadableTrees \cup FaultyTrees

\* The entries of a set in listing order.
RECURSIVE Listing(_, _)
Listing(S, order) ==
    IF S = {} THEN <<>>
    ELSE LET m == IF order = "asc" THEN CHOOSE x \in S : \A y \in S : x <= y
                  ELSE CHOOSE x \in S : \A y \in S : x >= y
         IN  <<m>> \o Listing(S \ {m}, order)

Children(t, d) == {i \in t.entries : dirname(Universe[i].path) = d}

\* Mutant: only hidden directories are pruned.
PrunedHiddenOnly(name) == startswith_dot(name)

\* Lines 92 and 124: the directories removed from dirs before the walk
\* descends.
Pruned(name) == startswith_dot(name) \/ name \in {"node_modules", "venv", "__pycache__"}

\* os.walk(repo_path) with the dirs[:] filter applied: the (root, files)
\* pairs in the order they are yielded.  A directory that cannot be listed
\* yields nothing (os.walk ignores the error).
RECURSIVE WalkDir(_, _), WalkAll(_, _)
WalkDir(t, d) ==
    LET here == Children(t, d)
        files == Listing({i \in here : Universe[i].kind = "file"}, t.order)
        dirs == Listing({i \in here : /\ Universe[i].kind # "file"
                                       /\ ~Pruned(basename(Universe[i].path))}, t.order)
    IN  <<[root |-> d, files |-> [k \in DOMAIN files |-> basename(Universe[files[k]].path)]]>>
            \o WalkAll(t, dirs)
WalkAll(t, dirs) ==
    IF dirs = <<>> THEN <<>>
    ELSE (IF Universe[Head(dirs)].kind = "locked" THEN <<>>
          ELSE WalkDir(t, Universe[Head(dirs)].path))
         \o WalkAll(t, Tail(dirs))
walk(t) == IF t.access = "readable" THEN WalkDir(t, <<>>) ELSE <<>>

\* os.path.relpath(root, repo_path) and os.path.basename(root).
relpath(d) == IF d = <<>> THEN <<".">> ELSE d
RootBasename(t, d) == IF d = <<>> THEN t.root_name ELSE basename(d)

AppendPath(p, key, rel_path) == [p EXCEPT ![key] = Append(@, rel_path)]
RECURSIVE AppendAll(_, _, _)
AppendAll(p, keys, rel_path) ==
    IF keys = <<>> THEN p
    ELSE AppendAll(AppendPath(p, Head(keys), rel_path), Tail(keys), rel_path)

\* Mutant: a .tf file is not recognised.
TerraformBucketsWithoutTf(file) ==
    IF endswith_tfvars(file) THEN <<"tfvars_files">>
    ELSE IF endswith_tfstate(file) THEN <<"state_files">>
    ELSE <<>>

\* Lines 98-105: the buckets a file name enters.
TerraformBuckets(file) ==
    IF endswith_tf(file)
    THEN IF contains_provider(file) THEN <<"tf_files", "provider_configs">> ELSE <<"tf_files">>
    ELSE IF endswith_tfvars(file) THEN <<"tfvars_files">>
    ELSE IF endswith_tfstate(file) THEN <<"state_files">>
    ELSE <<>>

\* Lines 130-135.
BicepBuckets(file) ==
    IF endswith_bicep(file)
    THEN IF file \in {"main.bicep", "azuredeploy.bicep"} THEN <<"bicep_files", "main_bicep">>
         ELSE <<"bicep_files">>
    ELSE IF endswith_bicepparam(file) THEN <<"bicepparam_files">>
    ELSE <<>>

\* The inner loop over files of one yielded directory.
RECURSIVE TerraformFilesOf(_, _, _), BicepFilesOf(_, _, _)
TerraformFilesOf(d, files, p) ==
    IF files = <<>> THEN p
    ELSE TerraformFilesOf(d, Tail(files),
             AppendAll(p, TerraformBuckets(Head(files)), Append(d, Head(files))))
BicepFilesOf(d, files, p) ==
    IF files = <<>> THEN p
    ELSE BicepFilesOf(d, Tail(files),
             AppendAll(p, BicepBuckets(Head(files)), Append(d, Head(files))))

\* The outer loop over the walk (lines 90-109 and 122-139).
RECURSIVE TerraformScan(_, _, _), BicepScan(_, _, _)
TerraformScan(t, yields, p) ==
    IF yields = <<>> THEN p
    ELSE LET y == Head(yields)
             p1 == TerraformFilesOf(y.root, y.files, p)
             p2 == IF contains_terraform(RootBasename(t, y.root))
                   THEN AppendPath(p1, "terraform_dirs", relpath(y.root)) ELSE p1
         IN  TerraformScan(t, Tail(yields), p2)
BicepScan(t, yields, p) ==
    IF yields = <<>> THEN p
    ELSE LET y == Head(yields)
             p1 == BicepFilesOf(y.root, y.files, p)
             p2 == IF contains_bicep_keyword(RootBasename(t, y.root))
                   THEN AppendPath(p1, "bicep_dirs", relpath(y.root)) ELSE p1
         IN  BicepScan(t, Tail(yields), p2)

_detect_terraform(t) == TerraformScan(t, walk(t), [k \in Range(TerraformKeys) |-> <<>>])
_detect_bicep(t) == BicepScan(t, walk(t), [k \in Range(BicepKeys) |-> <<>>])

\* os.path.exists(os.path.join(repo_path, 'infra')) (lines 184 and 199):
\* False whenever the entry cannot be looked up.
infra_exists(t) ==
    /\ t.access \in {"readable", "search_only"}
    /\ \E i \in t.entries : Universe[i].path = <<"infra">>

InitScan ==
    /\ Idle
    /\ patterns = <<>>
    /\ score = <<>>
    /\ terraform_patterns = <<>>
    /\ bicep_patterns = <<>>
    /\ inspection = <<>>
    /\ NoMain
    /\ NoPrompt
    /\ tree \in Trees
    /\ scan_raised = <<>>
    /\ NoRuns

\* inspect_repository(repo_path) as a whole (lines 39-78).  os.getcwd()
\* (line 40) raises FileNotFoundError when the working directory has been
\* removed.
InspectTree ==
    /\ inspection = <<>>
    /\ scan_raised = <<>>
    /\ IF tree.repo_path = None /\ tree.access = "missing"
       THEN /\ scan_raised' = <<"FileNotFoundError">>
            /\ UNCHANGED <<terraform_patterns, bicep_patterns, inspection>>
       ELSE /\ terraform_patterns' = _detect_terraform(tree)
            /\ bicep_patterns' = _detect_bicep(tree)
            /\ inspection' = <<inspect_repository(terraform_patterns', bicep_patterns',
                                                  infra_exists(tree))>>
            /\ UNCHANGED scan_raised
    /\ UNCHANGED <<tree, wfvars, scvars, mainvars, promptvars, runvars>>

NextScan == InspectTree

SpecScan == InitScan /\ [][NextScan]_vars

----------------------------------------------------------------------------
(* Runs of execute whose step 1 inspects a file tree *)

\* A call of inspect_repository outside execute.
InspectTreeDirect ==
    /\ pc = "idle"
    /\ InspectTree

\* execute(subscription_id) in a working directory that has not been
\* inspected; execute passes no repo_path (line 68).
ExecuteInTree ==
    /\ tree.repo_path = None
    /\ Cardinality(tree.entries) <= MaxRunEntries
    /\ inspection = <<>>
    /\ scan_raised = <<>>
    /\ ExecuteShared

\* Step 1, lines 66-73, with the inspector run on the tree: the exception of
\* os.getcwd() reaches the except clause, a result goes through the guard
\* of line 72.
Step1InspectTree ==
    /\ pc = "step1"
    /\ calls' = Append(calls, "inspect_repository")
    /\ IF tree.access = "missing"
       THEN /\ scan_raised' = <<"FileNotFoundError">>
            /\ exc' = Exception("inspect_repository", "FileNotFoundError")
            /\ pc' = "except"
            /\ UNCHANGED <<infra_type, terraform_patterns, bicep_patterns, inspection>>
       ELSE /\ terraform_patterns' = _detect_terraform(tree)
            /\ bicep_patterns' = _detect_bicep(tree)
            /\ inspection' = <<inspect_repository(terraform_patterns', bicep_patterns',
                                                  infra_exists(tree))>>
            /\ infra_type' = inspection'[1].infra_type
            /\ IF inspection'[1].infra_type \notin {"terraform", "bicep"}
               THEN /\ exc' = Exception("execute", "Unable to detect valid infrastructure type")
                    /\ pc' = "except"
               ELSE /\ pc' = "step2"
                    /\ UNCHANGED exc
            /\ UNCHANGED scan_raised
    /\ UNCHANGED <<subscription_id, vm_selector, workflow_id, branch_name, generated_files,
                   commit_sha, validation_results, pr, notifications, returned, raised>>
    /\ UNCHANGED <<tree, scvars, mainvars, promptvars, runvars>>

NextTreeRun ==
    \/ InspectTreeDirect
    \/ ExecuteInTree
    \/ Step1InspectTree
    \/ Step2CreateBranch
    \/ Step3Generate
    \/ Step4Commit
    \/ Step5Validate
    \/ ValidationFailed
    \/ Step6CreatePullRequest
    \/ Step7Notify
    \/ ExceptHandler

SpecTreeRun == InitScan /\ [][NextTreeRun]_vars

----------------------------------------------------------------------------
(* Claims about execute, checked under Spec *)

NotifySites == {"send_notification:failed_validation", "send_notification:pr_created",
                "send_notification:failed"}
Statuses(payloads) == [i \in DOMAIN payloads |-> payloads[i].status]

\* C1: every terminal state of execute has exactly one call of
\* send_notification behind it and exactly one returned or raised result,
\* whatever the steps and the notification calls did.
C1_OneNotificationOneResult ==
    pc = "done" => /\ Len(notifications) = 1
                   /\ Len(returned) + Len(raised) = 1

\* C2: once a step has raised, the run ends with one 'failed' notification
\* carrying the text of that exception, with that same exception raised to
\* the caller, and with nothing returned.
C2_StepFailureReraised ==
    (pc = "done" /\ exc # NoExc) =>
        /\ Cardinality({i \in DOMAIN notifications : notifications[i].status = "failed"}) = 1
        /\ notifications[Len(notifications)].status = "failed"
        /\ notifications[Len(notifications)].error = exc.text
        /\ raised = <<exc>>
        /\ returned = <<>>

\* C3: a run in which nothing but send_notification raised ends with its
\* normal result returned (success, or the validation failure) and nothing
\* raised.
C3_NotificationFailureNeverAborts ==
    (/\ pc = "done"
     /\ exc = NoExc \/ exc.site \in NotifySites
     /\ \A i \in DOMAIN validation_results.errors : validation_results.errors[i].kind # "raised") =>
        /\ raised = <<>>
        /\ Len(returned) = 1
        /\ returned[1].success = validation_results.passed

\* C4: a run whose validation checks did not pass raises nothing, sends the
\* 'failed_validation' notification with the recorded errors, returns
\* success = False with the validation details, and creates no pull request.
C4_ValidationFailureReported ==
    (pc = "done" /\ ~validation_results.passed) =>
        /\ raised = <<>>
        /\ Statuses(notifications) = <<"failed_validation">>
        /\ notifications[1].errors = validation_results.errors
        /\ Len(returned) = 1
        /\ returned[1].success = FALSE
        /\ returned[1].validation = validation_results
        /\ pr = NoPr
        /\ "create_pull_request" \notin Range(calls)

----------------------------------------------------------------------------
(* Claims about inspect_repository, checked under SpecInspect *)

TerraformScore == _calculate_confidence(terraform_patterns)
BicepScore == _calculate_confidence(bicep_patterns)
Inspected == inspection # <<>>

C6_HigherScoreWins ==
    Inspected =>
        /\ TerraformScore > BicepScore =>
              /\ inspection[1].infra_type = "terraform"
              /\ inspection[1].confidence = TerraformScore
        /\ BicepScore > TerraformScore =>
              /\ inspection[1].infra_type = "bicep"
              /\ inspection[1].confidence = BicepScore
        /\ TerraformScore # BicepScore =>
              /\ Classify(BicepScore, TerraformScore).infra_type # inspection[1].infra_type
              /\ Classify(BicepScore, TerraformScore).confidence = inspection[1].confidence

\* C6 witness: inspected, bicep strictly ahead of positive terraform evidence.
C6_Witness ==
    /\ Inspected
    /\ BicepScore > TerraformScore
    /\ TerraformScore > 0
    /\ inspection[1].infra_type = "bicep"
    /\ inspection[1].confidence = BicepScore

\* C7: the confidence of a result chosen by a strictly higher score is never
\* the default-guess confidence returned on a tie.
C7_ConfidenceTellsGuessFromDetection ==
    (Inspected /\ TerraformScore # BicepScore) =>
        inspection[1].confidence # DefaultConfidence

----------------------------------------------------------------------------
(* Claims about _calculate_confidence, checked under SpecScore *)

Scored == score # <<>>

\* C8: the score lies in [0.0, 1.0] for every dict, whatever the item counts.
C8_ScoreInUnitInterval == Scored => score[1] \in 0..100

\* C8 witness: scored, with contributions that add up to more than 1.0.
C8_Witness == Scored /\ Accumulate(patterns, Keys(patterns), 0) > 100

\* C9: one more item in any one bucket, the others unchanged, never lowers
\* the score.
C9_MonotoneInEveryBucket ==
    Scored => \A key \in DOMAIN patterns :
                 _calculate_confidence(AddItem(patterns, key)) >= score[1]

\* C9 witness: scored, where one more item raises the score through one
\* bucket and leaves it unchanged through another, below the clamp.
C9_Witness ==
    /\ Scored
    /\ score[1] < 100
    /\ \E key \in DOMAIN patterns : _calculate_confidence(AddItem(patterns, key)) > score[1]
    /\ \E key \in DOMAIN patterns : _calculate_confidence(AddItem(patterns, key)) = score[1]

\* The weights and caps of the four bucket categories, in hundredths.
Weight(key) ==
    CASE key \in {"tf_files", "bicep_files"} -> 20
      [] key \in {"provider_configs", "main_bicep"} -> 30
      [] key \in {"terraform_dirs", "bicep_dirs"} -> 10
      [] OTHER -> 5
Cap(key) ==
    CASE key \in {"tf_files", "bicep_files"} -> 60
      [] key \in {"provider_configs", "main_bicep"} -> 30
      [] key \in {"terraform_dirs", "bicep_dirs"} -> 20
      [] OTHER -> 10
RECURSIVE CappedSum(_, _)
CappedSum(p, keys) ==
    IF keys = {} THEN 0
    ELSE LET key == CHOOSE k \in keys : TRUE
         IN  Min(Len(p[key]) * Weight(key), Cap(key)) + CappedSum(p, keys \ {key})

\* C10: the score is min(1.0, sum over the buckets of min(count x weight,
\* cap)) with the weights and caps of the four categories.
C10_ScoreIsClampedCappedSum ==
    Scored => score[1] = Min(100, CappedSum(patterns, DOMAIN patterns))

\* C10 witness: scored below the clamp, with two buckets past their caps.
C10_Witness ==
    /\ Scored
    /\ score[1] < 100
    /\ Cardinality({key \in DOMAIN patterns :
                       Len(patterns[key]) * Weight(key) > Cap(key)}) >= 2

----------------------------------------------------------------------------
(* Claims about main(), checked under SpecMain *)

MissingRequired == \E n \in RequiredEnv : env[n] = Unset

\* C11: a run whose environment lacks a required value (repository owner,
\* repository name, token or target subscription) aborts with an error
\* before any pipeline step executes: no collaborator is ever called and
\* nothing is returned.
C11_MissingEnvFailsFast ==
    (config # <<>> /\ MissingRequired) =>
        /\ calls = <<>>
        /\ returned = <<>>

----------------------------------------------------------------------------
(* Claims about load_code_generator_prompt, checked under SpecPrompt *)

SupportedPairs == {<<"azure", "terraform">>, <<"azure", "bicep">>, <<"aws", "terraform">>}
PromptPair == <<prompt_args.cloud_provider, prompt_args.iac_type>>
Loaded == prompt_out # <<>>

\* C12: for every (cloud_provider, iac_type) pair other than the three
\* supported ones the call raises ValueError and has opened no file; for a
\* supported pair it opens exactly one template file, and no other
\* supported pair opens that same file.
C12_UnsupportedPairFailsFast ==
    Loaded =>
        IF PromptPair \notin SupportedPairs
        THEN prompt_out[1].raised = "ValueError" /\ prompt_out[1].opened = <<>>
        ELSE /\ Len(prompt_out[1].opened) = 1
             /\ prompt_out[1].opened[1] \in TemplateFiles
             /\ \A q \in SupportedPairs \ {PromptPair} :
                    load_code_generator_prompt(q[1], q[2], prompt_args.repository_url,
                        prompts_dir).opened # prompt_out[1].opened
C12_Witness ==
    /\ Loaded
    /\ PromptPair = <<"aws", "bicep">>
    /\ prompts_dir = TemplateFiles
    /\ prompt_out[1].raised = "ValueError"

----------------------------------------------------------------------------
(* Claims about the inspector on a file tree, checked under SpecScan *)

ScanDone == inspection # <<>>
Dialect == inspection[1].infra_type
DialectDirs == Get(inspection[1].patterns_found,
                   IF Dialect = "terraform" THEN "terraform_dirs" ELSE "bicep_dirs")
DialectFiles == Get(inspection[1].patterns_found,
                    IF Dialect = "terraform" THEN "tf_files" ELSE "bicep_files")
InfraEntry == \E i \in tree.entries : Universe[i].path = <<"infra">>
Derived(base) ==
    /\ inspection[1].suggested_paths.iac_dir = base
    /\ inspection[1].suggested_paths.automation_dir = base \o <<"automation">>
    /\ inspection[1].suggested_paths.runbooks_dir = base \o <<"automation", "runbooks">>

\* C13 as stated: the base directory is the first discovered directory
\* named after the dialect when there is one, and in every other case the
\* conventional name, under "infra" exactly when the root has an entry
\* "infra"; the other two paths are <base>/automation and
\* <base>/automation/runbooks.
C13_BaseDirIsDialectDirOrConvention ==
    ScanDone =>
        Derived(IF DialectDirs # <<>> THEN DialectDirs[1]
                ELSE IF InfraEntry THEN <<"infra", Dialect>>
                ELSE <<Dialect>>)

\* C13 amended: the base directory is the first discovered directory named
\* after the dialect when there is one; otherwise the directory holding the
\* first discovered file of the dialect when there is one; in every other
\* case the conventional name, under "infra" exactly when the lookup of
\* <root>/infra succeeds; the other two paths are <base>/automation and
\* <base>/automation/runbooks.
C13_BaseDirFollowsEvidence ==
    ScanDone =>
        Derived(IF DialectDirs # <<>> THEN DialectDirs[1]
                ELSE IF DialectFiles # <<>>
                     THEN SubSeq(DialectFiles[1], 1, Len(DialectFiles[1]) - 1)
                ELSE IF infra_exists(tree) THEN <<"infra", Dialect>>
                ELSE <<Dialect>>)
C13_Witness ==
    /\ ScanDone
    /\ DialectDirs = <<>>
    /\ DialectFiles # <<>>
    /\ inspection[1].suggested_paths.iac_dir = <<"modules">>

\* C14: inspecting a root that is missing or cannot be read raises nothing
\* and suggests the base directory "bicep", not "infra/bicep"; a directory
\* below the root that cannot be read does not make the scan raise either.
C14_FaultyRootFallsBack ==
    (ScanDone \/ scan_raised # <<>>) =>
        /\ (tree.access # "readable" \/ \E i \in tree.entries : Universe[i].kind = "locked")
              => scan_raised = <<>>
        /\ tree.access # "readable" =>
              /\ scan_raised = <<>>
              /\ inspection[1].suggested_paths.iac_dir = <<"bicep">>

\* C15: a readable tree holding main.tf and provider.tf at top level and
\* nothing else is classified terraform with a positive confidence; and
\* whenever the tree holds a .tf file and the terraform score exceeds the
\* bicep score, the result is terraform with the terraform score as its
\* confidence.
C15_TfFilesGiveTerraform ==
    ScanDone =>
        /\ (tree.access = "readable" /\ tree.entries = {1, 2}) =>
              (Dialect = "terraform" /\ inspection[1].confidence > 0)
        /\ ((\E i \in tree.entries : endswith_tf(basename(Universe[i].path)))
                /\ TerraformScore > BicepScore) =>
              (Dialect = "terraform" /\ inspection[1].confidence = TerraformScore)
C15_Witness ==
    /\ ScanDone
    /\ tree.access = "readable"
    /\ tree.entries = {1, 2}
    /\ Dialect = "terraform"

\* C16: the result of an inspection carries a cloud-provider guess, one of
\* azure, aws and none.  (The dict of lines 72-78 has the four fields of the
\* record inspect_repository builds here, and repo_path.)
C16_ResultCarriesProviderGuess ==
    ScanDone =>
        /\ "cloud_provider" \in DOMAIN inspection[1]
        /\ inspection[1].cloud_provider \in {"azure", "aws", "none"}

SkippedNames == {".git", "node_modules", "venv", "__pycache__"}
BucketPaths ==
    UNION {Range(terraform_patterns[k]) : k \in DOMAIN terraform_patterns}
        \cup UNION {Range(bicep_patterns[k]) : k \in DOMAIN bicep_patterns}

\* C17: no path in any evidence bucket of either dialect lies under a
\* hidden directory or under node_modules, venv or __pycache__.
C17_SkippedDirectoriesLeaveNoEvidence ==
    ScanDone =>
        \A path \in BucketPaths :
            \A j \in 1..(Len(path) - 1) : path[j] \notin SkippedNames
C17_Witness ==
    /\ ScanDone
    /\ tree.access = "readable"
    /\ {15, 16, 17, 18} \subseteq tree.entries
    /\ BucketPaths = {}

----------------------------------------------------------------------------
(* Claims about the dispatch of the generator, checked under SpecGenerate *)

Count(seq, x) == Cardinality({i \in DOMAIN seq : seq[i] = x})
GeneratorsRun == Count(calls, "_generate_terraform") + Count(calls, "_generate_bicep")

\* C18: once generate_automation_account has been called, in a run of
\* execute or directly, exactly one of the two generators has run when the
\* dialect is terraform or bicep, and it is the one of that dialect; for any
\* other dialect value no generator has run, no file has been produced and
\* the caller has received the ValueError.
C18_ExactlyOneGenerator ==
    Count(calls, "generate_automation_account") > 0 =>
        IF infra_type \in {"terraform", "bicep"}
        THEN /\ GeneratorsRun = 1
             /\ Count(calls, IF infra_type = "terraform" THEN "_generate_terraform"
                             ELSE "_generate_bicep") = 1
        ELSE /\ GeneratorsRun = 0
             /\ generated_files = <<>>
             /\ raised = <<Exception("generate_automation_account",
                                     "Unsupported infrastructure type")>>
C18_Witness ==
    /\ pc = "generated"
    /\ infra_type = "arm"
    /\ GeneratorsRun = 0
    /\ raised # <<>>

----------------------------------------------------------------------------
(* Claims about the order of the steps of one run, checked under Spec *)

\* The collaborator calls of the path to a pull request, in the order of
\* execute (lines 65-177).
StepOrder == <<"inspect_repository", "create_branch", "generate_automation_account",
               "commit_files", "_run_validation_checks", "create_pull_request">>
IsStep(c) == c \in Range(StepOrder)
StepsTaken == SelectSeq(calls, IsStep)
Before(a, b) == \E i, j \in DOMAIN calls : i < j /\ calls[i] = a /\ calls[j] = b

\* C20: the steps of a run occur in one fixed order, each at most once and
\* none after a notification: inspection, branch, generation, commit,
\* validation, pull request, then the pr_created notification.  The pull
\* request call comes only after a commit and a validation that passed, and
\* a result with success = True is returned only after the pull request was
\* created and the pr_created notification was sent.
C20_StepsInFixedOrder ==
    /\ StepsTaken = SubSeq(StepOrder, 1, Len(StepsTaken))
    /\ pc \notin {"idle", "step1"} => Count(calls, "inspect_repository") = 1
    /\ \A i, j \in DOMAIN calls :
          (i < j /\ calls[i] = "send_notification") => calls[j] = "send_notification"
    /\ \A i \in DOMAIN notifications :
          notifications[i].status = "pr_created" =>
              /\ pr.number # 0
              /\ Before("create_pull_request", "send_notification")
    /\ Count(calls, "create_pull_request") > 0 =>
          /\ Before("commit_files", "_run_validation_checks")
          /\ Before("_run_validation_checks", "create_pull_request")
          /\ commit_sha # None
          /\ validation_results.passed
    /\ \A i \in DOMAIN returned :
          returned[i].success =>
              /\ StepsTaken = StepOrder
              /\ pr.number # 0
              /\ Statuses(notifications) = <<"pr_created">>
              /\ calls[Len(calls)] = "send_notification"
C20_Witness ==
    /\ pc = "done"
    /\ returned # <<>>
    /\ returned[1].success
    /\ StepsTaken = StepOrder

----------------------------------------------------------------------------
(* Claims about two runs on one object, checked under SpecRuns *)

\* Everything a run reports carries the identifiers derived from that run's
\* own subscription_id, and the files and validation results of that run.
OwnData(f) ==
    /\ f.workflow_id \in {<<>>, <<"snooze", f.subscription_id>>}
    /\ f.branch_name \in {<<>>, <<"agent/snooze-automation", f.subscription_id>>}
    /\ \A i \in DOMAIN f.notifications :
          /\ f.notifications[i].workflow_id = <<"snooze", f.subscription_id>>
          /\ f.notifications[i].subscription_id = f.subscription_id
          /\ f.notifications[i].branch \in {<<>>, <<"agent/snooze-automation", f.subscription_id>>}
    /\ \A i \in DOMAIN f.returned :
          /\ f.returned[i].workflow_id = <<"snooze", f.subscription_id>>
          /\ f.returned[i].branch \in {<<>>, <<"agent/snooze-automation", f.subscription_id>>}
          /\ f.returned[i].files \in {<<>>, f.generated_files}
          /\ f.returned[i].validation = f.validation_results
          /\ f.returned[i].pr = f.pr

\* C19: two runs on one object, sequential or interleaved at their await
\* points, do not leak state into each other: the fields of the object are
\* never changed, a step of the running coroutine leaves the locals of the
\* suspended one untouched, and whatever a run returns or sends carries that
\* run's own identifiers, files and validation results.
C19_RunsDoNotLeak ==
    /\ [](self = WorkflowObject /\ OwnData(Locals) /\ OwnData(frames))
    /\ [][self' = self]_vars
    /\ [][frames' = frames \/ (frames' = Locals /\ Locals' = frames)]_vars
C19_Witness ==
    /\ pc = "step7"
    /\ frames.pc = "step5"
    /\ subscription_id # frames.subscription_id
    /\ notifications = <<>>
    /\ frames.calls # <<>>

----------------------------------------------------------------------------
(* Claims about _run_validation_checks, checked under Spec *)

Validated == Count(calls, "_run_validation_checks") > 0
ChecksRun == {validation_results.checks[i].name : i \in DOMAIN validation_results.checks}
ChecksFailed == {i \in DOMAIN validation_results.checks : ~validation_results.checks[i].passed}
ErrorsOf(kind) == {i \in DOMAIN validation_results.errors :
                      validation_results.errors[i].kind = kind}
RaisedIn(name) == \E i \in ErrorsOf("raised") : validation_results.errors[i].check = name

\* C21: _run_validation_checks returns and never raises; in its result
\* passed is true exactly when errors is empty; every failed check and the
\* exception of a check each account for exactly one error and a false
\* passed; and after a failed terraform_fmt the checks terraform_validate
\* and secret_scan are still called.
C21_ValidationNeverRaises ==
    Validated =>
        /\ calls[Len(calls)] = "_run_validation_checks" => pc \in {"step6", "validation_failed"}
        /\ exc.site # "_run_validation_checks"
        /\ validation_results.passed <=> validation_results.errors = <<>>
        /\ Len(validation_results.errors) =
              Cardinality(ChecksFailed) + Cardinality(ErrorsOf("raised"))
        /\ Cardinality(ErrorsOf("failed")) = Cardinality(ChecksFailed)
        /\ Cardinality(ErrorsOf("raised")) <= 1
        /\ \A i \in ChecksFailed :
              validation_results.checks[i].name = "terraform_fmt" =>
                  /\ "terraform_validate" \in ChecksRun \/ RaisedIn("terraform_validate")
                  /\ \/ "secret_scan" \in ChecksRun
                     \/ RaisedIn("terraform_validate")
                     \/ RaisedIn("secret_scan")
C21_Witness ==
    /\ Validated
    /\ pc = "validation_failed"
    /\ Len(validation_results.checks) = 3
    /\ validation_results.checks[1] = [name |-> "terraform_fmt", passed |-> FALSE]
    /\ validation_results.checks[3] = [name |-> "secret_scan", passed |-> TRUE]

----------------------------------------------------------------------------
(* Claims about the dialect an inspection reports, checked under SpecTreeRun *)

NoDialect == Exception("execute", "Unable to detect valid infrastructure type")

====
